---------------------------- MODULE Spec2Model ----------------------------
(***************************************************************************)
(* Model of the Qt download manager (Downloader, DownloadThread, Main).    *)
(*                                                                         *)
(* One process at a time runs main(): loadUnfinishedDownloads scans the    *)
(* progress directory, the GUI thread ("main") submits URLs and calls      *)
(* pauseDownload / resumeDownload, and every DownloadThread ("worker")     *)
(* runs Downloader::startDownload and then its event loop, which           *)
(* dispatches the reply's downloadProgress / finished signals to the       *)
(* slots onDownloadProgress / onDownloadFinished.                          *)
(*                                                                         *)
(* Every Downloader method starts with QMutexLocker on the Downloader's    *)
(* non-recursive QMutex, so a method body is atomic with respect to the    *)
(* other thread; a step "Call..." / dispatch puts the thread at the lock   *)
(* and a step "...Body" runs the method once the mutex is free.  A method  *)
(* that locks the mutex again while its own thread holds it never returns: *)
(* the thread stays at pc "deadlock" and keeps the mutex.                  *)
(***************************************************************************)
EXTENDS Integers, Sequences, FiniteSets, TLC

\* ------------------------------------------------------------------ bounds
\* longest destination file found on disk when the first process starts
MaxDisk == 2
\* longest response body a server sends for one request
MaxBody == 2
\* number of process runs (the first start plus restarts)
MaxRuns == 2

\* ------------------------------------------------------------- the universe
\* A URL is its host followed by its path segments.
U1 == <<"a", "f">>
U2 == <<"b", "f">>
U3 == <<"a", "g">>
NoUrl == <<>>

\* the DownloadThread objects one process can create
Dl == {1, 2}

\* the file names the URLs above derive, in QDir::entryList order
NameSeq == <<"f", "g">>
Names == {NameSeq[i] : i \in 1..Len(NameSeq)}

\* QUrl::fileName(): the last path segment
fileName(u) == u[Len(u)]

\* a file of the progress directory that does not exist
NoRecord == [exists |-> FALSE, lines |-> <<>>]

\* The three lines of a progress file; a line is its text before the first
\* colon and the payload after it.
RecordText(u, counts, status) ==
    [exists |-> TRUE,
     lines  |-> << <<"Download URL", u>>,
                   <<"Downloaded", counts>>,
                   <<"Status", status>> >>]

\* the bytes 1..n of the resource
Prefix(n) == [i \in 1..n |-> i]

IsPrefix(s, t) == Len(s) <= Len(t) /\ SubSeq(t, 1, Len(s)) = s

VARIABLES
    proc,            \* "boot" (main() before window.show), "running", "crashed"
    runs,            \* number of processes started so far
    input,           \* URLs the user will still type into the URL field
    cap,             \* number of DownloadThreads a process of this run creates
    files,           \* ~/qt_downloads: file name -> content (bytes of the resource)
    records,         \* ~/progress: file name -> progress file
    url,             \* DownloadThread::downloadUrl / Downloader::downloadUrl
    wpc,             \* where each worker thread is
    wargs,           \* arguments of the slot a worker has been dispatched to
    mpc,             \* where the GUI thread is
    mtarget,         \* the Downloader the GUI thread is calling
    mutex,           \* Downloader::mutex: "free", "worker" or "main"
    reply,           \* Downloader::reply: "null", "valid", "dangling"
    net,             \* the QNetworkReply object behind Downloader::reply
    delSched,        \* reply->deleteLater() posted and not yet processed
    file,            \* Downloader::file: "null" or "set"
    fileOpen,        \* whether the QFile behind Downloader::file is open
    progressFile,    \* Downloader::progressFile: "null" or "set"
    downloadedBytes, \* Downloader::downloadedBytes
    paused,          \* Downloader::paused
    events,          \* signals each Downloader has emitted, in order
    requests,        \* HTTP requests each Downloader has issued, in order
    resumes,         \* destination file sizes at each resume of a paused Downloader
    prevFailed,      \* URLs whose download failed in the previous process
    resubmitted,     \* URLs the last recovery scan resubmitted
    delivered,       \* how many signals of each Downloader the GUI thread has handled
    percent,         \* the value last passed to progressBar->setValue
    disabled         \* pauseResumeButton->setDisabled(true) was called

vars == <<proc, runs, input, cap, files, records, url, wpc, wargs, mpc, mtarget,
          mutex, reply, net, delSched, file, fileOpen, progressFile,
          downloadedBytes, paused, events, requests, resumes, prevFailed,
          resubmitted, delivered, percent, disabled>>

\* what the global startDownload of Main.cpp creates for each download
guiVars == <<delivered, percent, disabled>>

\* the per-Downloader fields
dlVars == <<reply, net, delSched, file, fileOpen, progressFile,
            downloadedBytes, paused>>

\* ----------------------------------------------------------------- helpers
NoReply == [state |-> "none", error |-> FALSE, conn |-> FALSE,
            buf |-> <<>>, recv |-> 0, len |-> 0, known |-> FALSE, offset |-> 0]

NoArgs == [recv |-> 0, total |-> 0]

\* a signal emitted by a Downloader; x and y are the signal's arguments
Ev(kind, x, y) == [kind |-> kind, x |-> x, y |-> y]

Emit(d, e) == events' = [events EXCEPT ![d] = Append(@, e)]

Key(d) == fileName(url[d])

\* QNetworkReply::readAll(): the bytes received and not yet read
readAll(d) == net[d].buf

\* reply->header(ContentLengthHeader).toLongLong(): 0 when there is no header
ContentLength(d) == IF net[d].known THEN net[d].len ELSE 0

\* the bytesTotal argument of QNetworkReply::downloadProgress: -1 when unknown
BytesTotal(d) == IF net[d].known THEN net[d].len ELSE -1


\* ------------------------------------------------------- the initial state
\* the status strings the code writes (lines 103, 135, 181 and 192)
Statuses == {"in-progress", "paused", "completed"}

\* the URLs of a workload, and the file names they derive
UrlsOf(inp) == UNION {{inp[i][j] : j \in 1..Len(inp[i])} : i \in 1..Len(inp)}
NamesOf(inp) == {fileName(u) : u \in UrlsOf(inp)}
UrlFor(inp, n) == CHOOSE u \in UrlsOf(inp) : fileName(u) = n

\* Downloader::Downloader, DownloadThread::DownloadThread: nothing created yet
Constructed ==
    /\ url = [d \in Dl |-> NoUrl]
    /\ wpc = [d \in Dl |-> "none"]
    /\ wargs = [d \in Dl |-> NoArgs]
    /\ mpc = "idle"
    /\ mtarget = 1
    /\ mutex = [d \in Dl |-> "free"]
    /\ reply = [d \in Dl |-> "null"]
    /\ net = [d \in Dl |-> NoReply]
    /\ delSched = [d \in Dl |-> FALSE]
    /\ file = [d \in Dl |-> "null"]
    /\ fileOpen = [d \in Dl |-> FALSE]
    /\ progressFile = [d \in Dl |-> "null"]
    /\ downloadedBytes = [d \in Dl |-> 0]
    /\ paused = [d \in Dl |-> FALSE]
    /\ events = [d \in Dl |-> <<>>]
    /\ requests = [d \in Dl |-> <<>>]
    /\ resumes = [d \in Dl |-> <<>>]
    /\ delivered = [d \in Dl |-> 0]
    /\ percent = [d \in Dl |-> 0]
    /\ disabled = [d \in Dl |-> FALSE]

\* The first process is at the start of main().  The two directories hold
\* what earlier runs left: for each file name of the workload a prefix of the
\* resource, and no progress file or one with any of the three statuses.
InitWith(inp, threads, sizes, sts, first) ==
    /\ proc = "boot"
    /\ runs = first
    /\ input = inp
    /\ cap = threads
    /\ prevFailed = {}
    /\ resubmitted = {}
    /\ Constructed
    /\ \E sz \in [Names -> sizes \cup {0}], st \in [Names -> sts \cup {"absent"}] :
         /\ \A n \in NamesOf(inp) : sz[n] \in sizes
         /\ \A n \in Names \ NamesOf(inp) : sz[n] = 0 /\ st[n] = "absent"
         /\ files = [n \in Names |-> Prefix(sz[n])]
         /\ records = [n \in Names |->
                IF st[n] = "absent" THEN NoRecord
                ELSE RecordText(UrlFor(inp, n), <<sz[n], MaxDisk>>, st[n])]

\* one click on "Start Download" with one URL in the URL field, and one
\* DownloadThread in every process
Init == InitWith(<< <<U1>> >>, 1, 0..MaxDisk, Statuses, 1)

\* one click with two URLs of different file names in the URL field and two
\* DownloadThreads; both progress files were left "in-progress" by an earlier
\* run, so that the recovery scan skips them and both downloads issue their
\* requests, and the process is the last but one
InitTwo ==
    /\ InitWith(<< <<U1, U3>> >>, 2, {MaxDisk}, {"in-progress"}, MaxRuns - 1)
    /\ \A n \in Names : records[n].exists

\* the same with two URLs that end in the same file name, or with the same
\* URL typed twice
InitSame ==
    /\ \E inp \in {<< <<U1, U2>> >>, << <<U1, U1>> >>} :
         InitWith(inp, 2, {MaxDisk}, {"in-progress"}, MaxRuns - 1)
    /\ \A n \in NamesOf(<< <<U1>> >>) : records[n].exists

\* --------------------------------------------------------------- Main.cpp
\* QString::toLongLong of the text after "Downloaded:": "0" is a number,
\* "400 / 1000" is not and converts to 0
toLongLong(counts) == IF Len(counts) = 1 THEN counts[1] ELSE 0

NoParse == [url |-> NoUrl, downloadedBytes |-> 0, status |-> ""]

\* the while loop of loadUnfinishedDownloads over the lines of one file
RECURSIVE ParseLines(_, _)
ParseLines(ls, acc) ==
    IF ls = <<>> THEN acc
    ELSE LET l == Head(ls) IN
         ParseLines(Tail(ls),
            IF l[1] = "Download URL" THEN [acc EXCEPT !.url = l[2]]
            ELSE IF l[1] = "Downloaded"
                 THEN [acc EXCEPT !.downloadedBytes = toLongLong(l[2])]
            ELSE IF l[1] = "Status" THEN [acc EXCEPT !.status = l[2]]
            ELSE acc)

\* the test of line 346 on the progress file named n
Resubmits(n) ==
    /\ records[n].exists
    /\ LET p == ParseLines(records[n].lines, NoParse) IN
         p.url # NoUrl /\ p.status # "in-progress"

FreeSlots == {d \in Dl : d <= cap /\ url[d] = NoUrl}

\* the global startDownload of Main.cpp called for the URLs us in order: each
\* gets a DownloadThread (line 280).  The function's text ends at line 310
\* without the call that starts the thread; a worker at "ready" is a started
\* thread about to execute DownloadThread::run.
RECURSIVE StartThreads(_, _, _)
StartThreads(us, u, w) ==
    IF us = <<>> THEN <<u, w>>
    ELSE LET d == CHOOSE x \in {y \in Dl : u[y] = NoUrl} :
                      \A y \in Dl : u[y] = NoUrl => x <= y
         IN StartThreads(Tail(us), [u EXCEPT ![d] = Head(us)],
                         [w EXCEPT ![d] = "ready"])

\* loadUnfinishedDownloads, called by main() before window.show()
loadUnfinishedDownloads ==
    /\ proc = "boot"
    /\ Len(SelectSeq(NameSeq, Resubmits)) <= cap
    /\ LET rs == SelectSeq(NameSeq, Resubmits)
           us == [i \in 1..Len(rs) |-> ParseLines(records[rs[i]].lines, NoParse).url]
           st == StartThreads(us, url, wpc)
       IN /\ url' = st[1]
          /\ wpc' = st[2]
          /\ resubmitted' = {us[i] : i \in 1..Len(us)}
    /\ proc' = "running"
    /\ UNCHANGED <<runs, input, cap, guiVars, files, records, wargs, mpc, mtarget, mutex,
                   dlVars, events, requests, resumes, prevFailed>>

\* onStartDownloadButtonClicked: one click starts every URL of the field
onStartDownloadButtonClicked ==
    /\ proc = "running"
    /\ mpc = "idle"
    /\ input # <<>>
    /\ Len(Head(input)) <= Cardinality(FreeSlots)
    /\ LET st == StartThreads(Head(input), url, wpc)
       IN url' = st[1] /\ wpc' = st[2]
    /\ input' = Tail(input)
    /\ UNCHANGED <<proc, runs, cap, guiVars, files, records, wargs, mpc, mtarget, mutex,
                   dlVars, events, requests, resumes, prevFailed, resubmitted>>

\* the downloads of this process that emitted downloadFailed for a transport
\* error (x = 1; x = 0 is the failure to open the destination file)
TransportFailed == {d \in Dl : \E i \in 1..Len(events[d]) :
                       events[d][i].kind = "Failed" /\ events[d][i].x = 1}

\* The process ends (the window is closed, or it crashed) and the program is
\* started again: every object is gone, the two directories stay.
Exit ==
    /\ proc \in {"running", "crashed"}
    /\ runs < MaxRuns
    /\ runs' = runs + 1
    /\ proc' = "boot"
    /\ prevFailed' = {url[d] : d \in TransportFailed}
    /\ resubmitted' = {}
    /\ url' = [d \in Dl |-> NoUrl]
    /\ wpc' = [d \in Dl |-> "none"]
    /\ wargs' = [d \in Dl |-> NoArgs]
    /\ mpc' = "idle"
    /\ mtarget' = 1
    /\ mutex' = [d \in Dl |-> "free"]
    /\ reply' = [d \in Dl |-> "null"]
    /\ net' = [d \in Dl |-> NoReply]
    /\ delSched' = [d \in Dl |-> FALSE]
    /\ file' = [d \in Dl |-> "null"]
    /\ fileOpen' = [d \in Dl |-> FALSE]
    /\ progressFile' = [d \in Dl |-> "null"]
    /\ downloadedBytes' = [d \in Dl |-> 0]
    /\ paused' = [d \in Dl |-> FALSE]
    /\ events' = [d \in Dl |-> <<>>]
    /\ requests' = [d \in Dl |-> <<>>]
    /\ resumes' = [d \in Dl |-> <<>>]
    /\ delivered' = [d \in Dl |-> 0]
    /\ percent' = [d \in Dl |-> 0]
    /\ disabled' = [d \in Dl |-> FALSE]
    /\ UNCHANGED <<input, cap, files, records>>


\* ---------------------------------------------------------- Downloader.cpp
\* QFile::open(WriteOnly) on the QFile behind Downloader::file, then
\* write(bytes) and close(), as onDownloadProgress and onDownloadFinished do:
\* open() fails on a QFile that is already open, and nothing is written;
\* otherwise WriteOnly truncates the file and the bytes become its content.
OpenWriteClose(d, bytes) ==
    IF fileOpen[d] THEN files
    ELSE [files EXCEPT ![Key(d)] = bytes]

\* the QNetworkReply that networkManager->get(request) returns for a request
\* with "Range: bytes=offset-": the server will send len more bytes, with or
\* without a Content-Length header
NewReply(offset, len, known) ==
    [state |-> "active", error |-> FALSE, conn |-> TRUE, buf |-> <<>>,
     recv |-> 0, len |-> len, known |-> known, offset |-> offset]

\* QMutexLocker locker(&mutex) run by thread t while t already holds the
\* Downloader's QMutex (line 42, non-recursive): lock() never returns, and t
\* keeps the mutex.
NestedLock(d, t) == mutex' = [mutex EXCEPT ![d] = t]

\* Downloader::createProgressFile as startDownload calls it (line 76), from
\* inside its own QMutexLocker: it stops at its first statement, line 169,
\* and creates nothing.
createProgressFile(d, t) ==
    /\ NestedLock(d, t)
    /\ UNCHANGED <<records, progressFile>>

\* Downloader::updateProgressFile as onDownloadProgress calls it (line 165),
\* from inside its own QMutexLocker: it stops at line 187 and writes nothing.
updateProgressFile(d, t) ==
    /\ NestedLock(d, t)
    /\ UNCHANGED <<records, progressFile>>

\* Downloader::startDownload run by thread t, which has just taken the mutex.
\* ok: whether the destination file can be opened; len, known: the response.
startDownload(d, t, ok, len, known) ==
    /\ file' = [file EXCEPT ![d] = "set"]
    /\ IF ~ok
       THEN \* lines 63-66
            /\ Emit(d, Ev("Failed", 0, 0))
            /\ fileOpen' = [fileOpen EXCEPT ![d] = FALSE]
            /\ UNCHANGED <<files, mutex, reply, net, downloadedBytes, requests,
                           records, progressFile>>
       ELSE \* open(WriteOnly) truncates the destination file and keeps it open
            /\ files' = [files EXCEPT ![Key(d)] = <<>>]
            /\ fileOpen' = [fileOpen EXCEPT ![d] = TRUE]
            /\ IF ~records[Key(d)].exists
               THEN \* lines 75-76: there is no progress file yet
                    /\ createProgressFile(d, t)
                    /\ UNCHANGED <<reply, net, downloadedBytes, requests, events>>
               ELSE \* lines 79-86
                    /\ downloadedBytes' = [downloadedBytes EXCEPT ![d] = Len(files'[Key(d)])]
                    /\ requests' = [requests EXCEPT ![d] = Append(@, downloadedBytes'[d])]
                    /\ reply' = [reply EXCEPT ![d] = "valid"]
                    /\ net' = [net EXCEPT ![d] = NewReply(downloadedBytes'[d], len, known)]
                    /\ UNCHANGED <<mutex, events, records, progressFile>>

\* DownloadThread::run, lines 235-239: the Downloader is created and
\* DownloadThread::downloader is set, so that the GUI thread's calls reach it
Create(d) ==
    /\ proc = "running"
    /\ wpc[d] = "ready"
    /\ wpc' = [wpc EXCEPT ![d] = "created"]
    /\ UNCHANGED <<proc, runs, input, cap, guiVars, files, records, url, wargs,
                   mpc, mtarget, mutex, dlVars, events, requests, resumes,
                   prevFailed, resubmitted>>

\* DownloadThread::run, lines 241-242: calls startDownload, then exec()
Run(d) ==
    /\ proc = "running"
    /\ wpc[d] = "created"
    /\ mutex[d] = "free"
    /\ \E ok \in BOOLEAN, len \in 0..MaxBody, known \in BOOLEAN :
         startDownload(d, "worker", ok, len, known)
    /\ wpc' = [wpc EXCEPT ![d] = IF mutex'[d] = "worker" THEN "deadlock" ELSE "loop"]
    /\ UNCHANGED <<proc, runs, input, cap, guiVars, url, wargs, mpc, mtarget,
                   delSched, paused, resumes, prevFailed, resubmitted>>

\* The worker's event loop: k more bytes of the response arrive and the reply
\* emits downloadProgress, which calls the slot onDownloadProgress.
Chunk(d) ==
    /\ proc = "running"
    /\ wpc[d] = "loop"
    /\ net[d].state = "active"
    /\ \E k \in 1..(net[d].len - net[d].recv) :
         /\ net' = [net EXCEPT ![d].recv = @ + k,
                               ![d].buf = @ \o [i \in 1..k |-> net[d].offset + net[d].recv + i]]
         /\ IF net[d].conn
            THEN /\ wpc' = [wpc EXCEPT ![d] = "progress_lock"]
                 /\ wargs' = [wargs EXCEPT ![d] = [recv |-> net'[d].recv, total |-> BytesTotal(d)]]
            ELSE UNCHANGED <<wpc, wargs>>
    /\ UNCHANGED <<proc, runs, input, cap, guiVars, files, records, url, mpc, mtarget, mutex,
                   reply, delSched, file, fileOpen, progressFile,
                   downloadedBytes, paused, events, requests, resumes,
                   prevFailed, resubmitted>>

\* The worker's event loop: the response ends, with a transport error (err) or
\* complete, and the reply emits finished, which calls onDownloadFinished.
Finish(d) ==
    /\ proc = "running"
    /\ wpc[d] = "loop"
    /\ net[d].state = "active"
    /\ \E err \in BOOLEAN :
         /\ ~err => net[d].recv = net[d].len
         /\ net' = [net EXCEPT ![d].state = "finished", ![d].error = err]
    /\ IF net[d].conn
       THEN wpc' = [wpc EXCEPT ![d] = "finished_lock"]
       ELSE UNCHANGED wpc
    /\ UNCHANGED <<proc, runs, input, cap, guiVars, files, records, url, wargs, mpc, mtarget,
                   mutex, reply, delSched, file, fileOpen, progressFile,
                   downloadedBytes, paused, events, requests, resumes,
                   prevFailed, resubmitted>>

\* The worker's event loop processes the DeferredDelete that deleteLater
\* posted: the reply object is destroyed, Downloader::reply keeps its address.
DeferredDelete(d) ==
    /\ proc = "running"
    /\ wpc[d] = "loop"
    /\ delSched[d]
    /\ delSched' = [delSched EXCEPT ![d] = FALSE]
    /\ reply' = [reply EXCEPT ![d] = "dangling"]
    /\ net' = [net EXCEPT ![d].state = "deleted", ![d].conn = FALSE]
    /\ UNCHANGED <<proc, runs, input, cap, guiVars, files, records, url, wpc, wargs, mpc,
                   mtarget, mutex, file, fileOpen, progressFile,
                   downloadedBytes, paused, events, requests, resumes,
                   prevFailed, resubmitted>>

\* onDownloadProgress with the two arguments of the slot taken for each other
\* at line 153
onDownloadProgressSwapped(d) ==
    /\ proc = "running"
    /\ wpc[d] = "progress_lock"
    /\ mutex[d] = "free"
    /\ downloadedBytes' = [downloadedBytes EXCEPT ![d] = wargs[d].total]
    /\ files' = OpenWriteClose(d, readAll(d))
    /\ net' = [net EXCEPT ![d].buf = IF fileOpen[d] THEN @ ELSE <<>>]
    /\ Emit(d, Ev("Progress", downloadedBytes'[d],
                  IF wargs[d].total > 0 THEN wargs[d].total ELSE 1))
    /\ updateProgressFile(d, "worker")
    /\ wpc' = [wpc EXCEPT ![d] = "deadlock"]
    /\ UNCHANGED <<proc, runs, input, cap, guiVars, url, wargs, mpc, mtarget, reply,
                   delSched, file, fileOpen, paused, requests, resumes,
                   prevFailed, resubmitted>>

\* Downloader::onDownloadProgress(bytesReceived, bytesTotal), once the worker
\* has the mutex.  Its last statement, updateProgressFile, locks the mutex the
\* worker holds: the slot never returns and the progress file is not written.
onDownloadProgress(d) ==
    /\ proc = "running"
    /\ wpc[d] = "progress_lock"
    /\ mutex[d] = "free"
    /\ downloadedBytes' = [downloadedBytes EXCEPT ![d] = wargs[d].recv]
    /\ files' = OpenWriteClose(d, readAll(d))
    /\ net' = [net EXCEPT ![d].buf = IF fileOpen[d] THEN @ ELSE <<>>]
    /\ Emit(d, Ev("Progress", downloadedBytes'[d],
                  IF wargs[d].total > 0 THEN wargs[d].total ELSE 1))
    /\ updateProgressFile(d, "worker")
    /\ wpc' = [wpc EXCEPT ![d] = "deadlock"]
    /\ UNCHANGED <<proc, runs, input, cap, guiVars, url, wargs, mpc, mtarget, reply,
                   delSched, file, fileOpen, paused, requests, resumes,
                   prevFailed, resubmitted>>

\* Downloader::onDownloadFinished, once the worker has the mutex
onDownloadFinished(d) ==
    /\ proc = "running"
    /\ wpc[d] = "finished_lock"
    /\ mutex[d] = "free"
    /\ IF ~net[d].error
       THEN /\ files' = OpenWriteClose(d, readAll(d))
            /\ net' = [net EXCEPT ![d].buf = IF fileOpen[d] THEN @ ELSE <<>>]
            /\ IF progressFile[d] = "set"
               THEN \* "Status: completed" is written, then the file is removed
                    /\ records' = [records EXCEPT ![Key(d)] = NoRecord]
                    /\ progressFile' = [progressFile EXCEPT ![d] = "null"]
               ELSE UNCHANGED <<records, progressFile>>
            /\ Emit(d, Ev("Finished", 0, 0))
       ELSE /\ Emit(d, Ev("Failed", 1, 0))
            /\ UNCHANGED <<files, net, records, progressFile>>
    /\ delSched' = [delSched EXCEPT ![d] = TRUE]
    /\ wpc' = [wpc EXCEPT ![d] = "loop"]
    /\ UNCHANGED <<proc, runs, input, cap, guiVars, url, wargs, mpc, mtarget, mutex, reply,
                   file, fileOpen, downloadedBytes, paused, requests, resumes,
                   prevFailed, resubmitted>>

\* DownloadThread::pauseDownload called by the GUI thread: a call on a thread
\* whose Downloader is not created yet does nothing, and a disabled button
\* makes no call
CallPause(d) ==
    /\ proc = "running"
    /\ mpc = "idle"
    /\ wpc[d] \notin {"none", "ready"}
    /\ ~disabled[d]
    /\ mpc' = "pause_lock"
    /\ mtarget' = d
    /\ UNCHANGED <<proc, runs, input, cap, guiVars, files, records, url, wpc, wargs, mutex,
                   dlVars, events, requests, resumes, prevFailed, resubmitted>>

\* DownloadThread::resumeDownload called by the GUI thread
CallResume(d) ==
    /\ proc = "running"
    /\ mpc = "idle"
    /\ wpc[d] \notin {"none", "ready"}
    /\ ~disabled[d]
    /\ mpc' = "resume_lock"
    /\ mtarget' = d
    /\ UNCHANGED <<proc, runs, input, cap, guiVars, files, records, url, wpc, wargs, mutex,
                   dlVars, events, requests, resumes, prevFailed, resubmitted>>

\* The body of pauseDownload's if statement (lines 92-107).  The reply is used
\* through Downloader::reply whatever became of the object.
PauseEffect(d) ==
    /\ paused' = [paused EXCEPT ![d] = TRUE]
    /\ net' = [net EXCEPT ![d].conn = FALSE,
                          ![d].state = IF @ = "active" THEN "aborted" ELSE @,
                          ![d].error = IF net[d].state = "active" THEN TRUE ELSE @]
    /\ IF progressFile[d] = "set"
       THEN records' = [records EXCEPT ![Key(d)] =
                RecordText(url[d], <<downloadedBytes[d], ContentLength(d)>>, "paused")]
       ELSE UNCHANGED records
    /\ Emit(d, Ev("PauseResume", 1, 0))

\* Downloader::pauseDownload, once the GUI thread has the mutex.  With the
\* reply object already destroyed, disconnect and abort use a dangling
\* pointer: the process crashes, or goes on as if the object were there.
pauseDownload(d) ==
    /\ proc = "running"
    /\ mpc = "pause_lock"
    /\ mtarget = d
    /\ mutex[d] = "free"
    /\ IF ~paused[d] /\ reply[d] # "null"
       THEN \/ /\ PauseEffect(d)
               /\ mpc' = "idle"
               /\ UNCHANGED proc
            \/ /\ reply[d] = "dangling"
               /\ proc' = "crashed"
               /\ UNCHANGED <<mpc, paused, net, records, events>>
       ELSE /\ mpc' = "idle"
            /\ UNCHANGED <<proc, paused, net, records, events>>
    /\ UNCHANGED <<runs, input, cap, guiVars, files, url, wpc, wargs, mtarget, mutex, reply,
                   delSched, file, fileOpen, progressFile, downloadedBytes,
                   requests, resumes, prevFailed, resubmitted>>

\* Downloader::resumeDownload, once the GUI thread has the mutex.  When
\* paused, it reconnects the old reply and calls startDownload, which locks
\* the mutex the GUI thread holds: the call never returns.
resumeDownload(d) ==
    /\ proc = "running"
    /\ mpc = "resume_lock"
    /\ mtarget = d
    /\ mutex[d] = "free"
    /\ IF paused[d]
       THEN \/ /\ paused' = [paused EXCEPT ![d] = FALSE]
               /\ resumes' = [resumes EXCEPT ![d] = Append(@, Len(files[Key(d)]))]
               /\ net' = [net EXCEPT ![d].conn = TRUE]
               /\ NestedLock(d, "main")  \* line 118 calls startDownload: line 58
               /\ mpc' = "deadlock"
               /\ UNCHANGED proc
            \/ /\ reply[d] = "dangling"
               /\ proc' = "crashed"
               /\ paused' = [paused EXCEPT ![d] = FALSE]
               /\ resumes' = [resumes EXCEPT ![d] = Append(@, Len(files[Key(d)]))]
               /\ UNCHANGED <<net, mutex, mpc>>
       ELSE /\ mpc' = "idle"
            /\ UNCHANGED <<proc, paused, resumes, net, mutex>>
    /\ UNCHANGED <<runs, input, cap, guiVars, files, records, url, wpc, wargs, mtarget, reply,
                   delSched, file, fileOpen, progressFile, downloadedBytes,
                   events, requests, prevFailed, resubmitted>>

\* the value the lambda of lines 291-299 passes to progressBar->setValue
Percentage(bytesReceived, bytesTotal) ==
    IF bytesTotal = 0 THEN 0
    ELSE (bytesReceived * 100) \div bytesTotal

\* The GUI thread's event loop handles the next signal of Downloader d: the
\* connections of DownloadThread::run (lines 236-239) relay it from the worker
\* thread to the DownloadThread object, which lives in the GUI thread, and
\* that calls the lambdas of Main.cpp.  The lambdas captured the locals of the
\* global startDownload by reference and run after it returned: the process
\* crashes, or goes on as if the locals were there.  No lambda is connected to
\* downloadFailed or pauseResumeStatusChanged.  The downloadFinished lambda
\* ends the worker's event loop and waits for the thread, which destroys the
\* reply that deleteLater marked.
Deliver(d) ==
    /\ proc = "running"
    /\ mpc = "idle"
    /\ delivered[d] < Len(events[d])
    /\ delivered' = [delivered EXCEPT ![d] = @ + 1]
    /\ LET e == events[d][delivered[d] + 1] IN
       IF e.kind \in {"Progress", "Finished"}
       THEN \/ /\ e.kind = "Progress"
               /\ percent' = [percent EXCEPT ![d] = Percentage(e.x, e.y)]
               /\ UNCHANGED <<proc, disabled, wpc, reply, net, delSched>>
            \/ /\ e.kind = "Finished"
               /\ percent' = [percent EXCEPT ![d] = 100]
               /\ disabled' = [disabled EXCEPT ![d] = TRUE]
               /\ wpc' = [wpc EXCEPT ![d] = "done"]
               /\ delSched' = [delSched EXCEPT ![d] = FALSE]
               /\ reply' = [reply EXCEPT ![d] = IF delSched[d] THEN "dangling" ELSE @]
               /\ net' = [net EXCEPT ![d].state = IF delSched[d] THEN "deleted" ELSE @,
                                     ![d].conn = IF delSched[d] THEN FALSE ELSE @]
               /\ UNCHANGED proc
            \/ /\ proc' = "crashed"
               /\ UNCHANGED <<percent, disabled, wpc, reply, net, delSched>>
       ELSE UNCHANGED <<proc, percent, disabled, wpc, reply, net, delSched>>
    /\ UNCHANGED <<runs, input, cap, files, records, url, wargs, mpc, mtarget,
                   mutex, file, fileOpen, progressFile, downloadedBytes, paused,
                   events, requests, resumes, prevFailed, resubmitted>>

\* ------------------------------------------------------- the specification
Worker(d) ==
    \/ Create(d)
    \/ Run(d)
    \/ Chunk(d)
    \/ Finish(d)
    \/ DeferredDelete(d)
    \/ onDownloadProgress(d)
    \/ onDownloadFinished(d)

Gui(d) ==
    \/ CallPause(d)
    \/ pauseDownload(d)
    \/ CallResume(d)
    \/ resumeDownload(d)
    \/ Deliver(d)

Next ==
    \/ loadUnfinishedDownloads
    \/ onStartDownloadButtonClicked
    \/ Exit
    \/ \E d \in Dl : Worker(d)
    \/ \E d \in Dl : Gui(d)

Spec == Init /\ [][Next]_vars

\* The threads are scheduled: a thread that can take its next step takes it.
\* What the network and the user do (Chunk, Finish, the calls, Exit) is not
\* forced.
Fairness ==
    /\ WF_vars(loadUnfinishedDownloads)
    /\ \A d \in Dl :
         /\ WF_vars(Create(d))
         /\ WF_vars(Run(d))
         /\ WF_vars(DeferredDelete(d))
         /\ WF_vars(onDownloadProgress(d))
         /\ WF_vars(onDownloadFinished(d))
         /\ WF_vars(pauseDownload(d))
         /\ WF_vars(resumeDownload(d))
         /\ WF_vars(Deliver(d))

FairSpec == Spec /\ Fairness

SpecTwo == InitTwo /\ [][Next]_vars

SpecSame == InitSame /\ [][Next]_vars

TypeOK ==
    /\ proc \in {"boot", "running", "crashed"}
    /\ runs \in 1..MaxRuns
    /\ \A d \in Dl :
         /\ wpc[d] \in {"none", "ready", "created", "loop", "progress_lock",
                        "finished_lock", "deadlock", "done"}
         /\ mutex[d] \in {"free", "worker", "main"}
         /\ reply[d] \in {"null", "valid", "dangling"}
         /\ net[d].state \in {"none", "active", "aborted", "finished", "deleted"}
         /\ file[d] \in {"null", "set"}
         /\ progressFile[d] \in {"null", "set"}
         /\ downloadedBytes[d] \in 0..MaxBody
         /\ paused[d] \in BOOLEAN
    /\ mpc \in {"idle", "pause_lock", "resume_lock", "deadlock"}
    /\ mtarget \in Dl
    /\ \A d \in Dl :
         /\ delivered[d] \in 0..Len(events[d])
         /\ percent[d] \in Int
         /\ disabled[d] \in BOOLEAN


\* ------------------------------------------------------------ observations
\* the payload of the last line of progress file n that starts with key
LineOf(n, key) ==
    LET ls == records[n].lines
        is == {i \in 1..Len(ls) : ls[i][1] = key}
    IN ls[CHOOSE i \in is : \A j \in is : j <= i][2]

\* the status and the byte count a progress file shows
RecStatus(n) == ParseLines(records[n].lines, NoParse).status
RecDownloaded(n) == LineOf(n, "Downloaded")[1]

HasEvent(d, kinds) == \E i \in 1..Len(events[d]) : events[d][i].kind \in kinds
CountEvents(d, kind) == Cardinality({i \in 1..Len(events[d]) : events[d][i].kind = kind})

\* Completed or Failed
Terminal(d) == HasEvent(d, {"Finished", "Failed"})

\* ------------------------------------------------------------------ claims

\* C1: once startDownload has issued its request, downloadedBytes equals the
\* byte length of the destination file on disk in every state.
C1_CounterEqualsFileSize ==
    \A d \in Dl : requests[d] # <<>> => downloadedBytes[d] = Len(files[Key(d)])

\* C2: every resumeDownload applied to a paused Downloader issues a request
\* whose Range offset is the destination file's size at the moment of the
\* resume: the i-th resume is followed by the (i+1)-th request of the
\* Downloader, with that offset.
C2_ResumeOffsetIsFileSize ==
    \A d \in Dl : \A i \in 1..Len(resumes[d]) :
        /\ Len(requests[d]) >= i + 1
        /\ requests[d][i + 1] = resumes[d][i]

\* C3: no step shortens a destination file or changes bytes already in it:
\* the content before the step is a prefix of the content after it.
C3_FlushedBytesKept ==
    [][\A n \in Names : IsPrefix(files[n], files'[n])]_vars

\* C4: when pauseDownload is called while an onDownloadProgress of the same
\* Downloader is in flight, then in the same process both return, the reply is
\* aborted, and the progress file says paused with the byte count of before
\* (b) or after (a) the in-flight update.
C4_PauseDuringProgress ==
    \A d \in Dl : \A r \in 1..MaxRuns : \A b \in 0..MaxBody : \A a \in 0..MaxBody :
        (/\ runs = r /\ proc = "running"
         /\ mpc = "pause_lock" /\ mtarget = d /\ wpc[d] = "progress_lock"
         /\ ~paused[d] /\ reply[d] = "valid"
         /\ downloadedBytes[d] = b /\ wargs[d].recv = a)
        ~> (\/ runs # r
            \/ proc # "running"
            \/ /\ mpc = "idle" /\ wpc[d] = "loop"
               /\ net[d].state = "aborted"
               /\ records[Key(d)].exists
               /\ RecStatus(Key(d)) = "paused"
               /\ RecDownloaded(Key(d)) \in {a, b})

\* C5: after downloadFinished the progress file of the download is absent.
C5_CompletedRecordDeleted ==
    \A d \in Dl : HasEvent(d, {"Finished"}) => ~records[Key(d)].exists

\* C6: a download that failed with a transport error has its progress file on
\* disk with status failed or in-progress, and the recovery scan of the next
\* process resubmits its URL.
C6_FailedIsRecovered ==
    /\ \A d \in TransportFailed :
         /\ records[Key(d)].exists
         /\ RecStatus(Key(d)) \in {"failed", "in-progress"}
    /\ proc = "running" =>
         \A u \in prevFailed :
           /\ records[fileName(u)].exists
           /\ RecStatus(fileName(u)) \in {"failed", "in-progress"}
           /\ u \in resubmitted

\* C7: a pauseDownload that pauses an in-progress download leaves a progress
\* file with status paused and the destination file's size as byte count.
C7_PauseWritesRecord ==
    [][\A d \in Dl :
         (pauseDownload(d) /\ net[d].state = "active" /\ ~paused[d] /\ paused'[d])
         => /\ records'[Key(d)].exists
            /\ RecStatus(Key(d))' = "paused"
            /\ RecDownloaded(Key(d))' = Len(files'[Key(d)])]_vars

\* C8: pauseDownload on a Downloader that is paused, Completed or Failed
\* changes nothing: not the paused flag, downloadedBytes, the progress files,
\* the reply or the emitted events, and the process goes on.
C8_PauseOnPausedOrTerminalIsNoOp ==
    [][\A d \in Dl :
         (pauseDownload(d) /\ (paused[d] \/ Terminal(d)))
         => UNCHANGED <<paused, downloadedBytes, records, net, events, proc>>]_vars

\* C9: Finished or Failed is the last event of a download: no event of any
\* kind follows it (so no Progress, and no second terminal event).
C9_TerminalEventIsLast ==
    \A d \in Dl : \A i \in 1..Len(events[d]) :
        events[d][i].kind \in {"Finished", "Failed"} => i = Len(events[d])

\* C10: a download emits downloadFailed at most once, a reply aborted by
\* pauseDownload emits none, a failed open of the destination file has
\* emitted one when startDownload returns, and a reply that finished with a
\* transport error leads to exactly one downloadFailed in the same process.
C10_OneFailedPerFailure ==
    /\ [](\A d \in Dl : CountEvents(d, "Failed") <= 1)
    /\ [](\A d \in Dl : net[d].state = "aborted" => CountEvents(d, "Failed") = 0)
    /\ [](\A d \in Dl : (file[d] = "set" /\ ~fileOpen[d] /\ mutex[d] = "free")
                           => CountEvents(d, "Failed") = 1)
    /\ \A d \in Dl : \A r \in 1..MaxRuns :
         (runs = r /\ proc = "running" /\ wpc[d] = "finished_lock" /\ net[d].error)
         ~> (runs # r \/ proc # "running" \/ CountEvents(d, "Failed") = 1)

\* what C11 calls the state of download e
OtherState(e) ==
    <<downloadedBytes[e], paused[e], files[Key(e)], records[Key(e)]>>

\* download d has issued its request and has emitted no terminal event
Running(d) == url[d] # NoUrl /\ requests[d] # <<>> /\ ~Terminal(d)

\* the worker of e can take the next chunk of its response (guard of Chunk)
CanReceive(e) ==
    /\ proc = "running"
    /\ wpc[e] = "loop"
    /\ net[e].state = "active"
    /\ net[e].recv < net[e].len

\* the worker of e can run the slot that emits downloadProgress (guard of
\* onDownloadProgress)
CanEmit(e) == proc = "running" /\ wpc[e] = "progress_lock" /\ mutex[e] = "free"

\* a downloadProgress signal of e waits for the GUI thread
ProgressPending(e) ==
    /\ delivered[e] < Len(events[e])
    /\ events[e][delivered[e] + 1].kind = "Progress"

\* the GUI thread will not return from its call of pauseDownload or
\* resumeDownload on d: it waits for the mutex it holds itself, or for the one
\* the worker holds while it waits for it a second time
GuiBlockedIn(d) ==
    /\ proc = "running"
    /\ mtarget = d
    /\ \/ mpc = "deadlock"
       \/ mpc \in {"pause_lock", "resume_lock"} /\ wpc[d] = "deadlock"

\* a step that pauses download d, resumes it or reports its failure leaves
\* the Downloader of e alone
OtherDownloadUntouched ==
    [][\A d \in Dl : \A e \in Dl \ {d} :
         ( /\ Running(d) /\ Running(e)
           /\ Key(d) # Key(e)
           /\ \/ pauseDownload(d)
              \/ resumeDownload(d)
              \/ (net[d].error /\ onDownloadFinished(d)) )
         => /\ OtherState(e)' = OtherState(e)
            /\ CanReceive(e) => CanReceive(e)'
            /\ CanEmit(e) => CanEmit(e)']_vars

\* C11: with two downloads of different file names running, a step that
\* pauses one, resumes it or reports its failure leaves downloadedBytes, the
\* paused flag, the destination file and the progress file of the other as
\* they were, the other can still receive its next chunk and emit its progress
\* signal if it could before, and no progress signal of the other is held back
\* for ever by a pause or resume of the first.
C11_OtherDownloadIndependent ==
    /\ OtherDownloadUntouched
    /\ [](\A d \in Dl : \A e \in Dl \ {d} :
            (Running(d) /\ Running(e) /\ Key(d) # Key(e) /\ ProgressPending(e))
            => ~GuiBlockedIn(d))

\* C12: two Downloaders that have both issued their request and reached no
\* terminal event never have the same destination file and progress file
\* name, whether their URLs are equal or different.
C12_OneOwnerPerKey ==
    \A d \in Dl : \A e \in Dl \ {d} :
        (Running(d) /\ Running(e)) => Key(d) # Key(e)

\* C13: a call of resumeDownload on a Downloader that is not paused and on
\* which startDownload has not run yet issues a request from offset 0 and
\* leaves the download in progress.
C13_ResumeBeforeStartStarts ==
    [][\A d \in Dl :
         (wpc[d] = "created" /\ ~paused[d] /\ resumeDownload(d))
         => (requests'[d] = <<0>> /\ net'[d].state = "active")]_vars

\* C14: from the request of a Downloader to its terminal signal, through
\* every pause and resume, downloadedBytes is at least 0 and no step makes it
\* smaller.
C14_DownloadedBytesMonotonic ==
    [][\A d \in Dl :
         (Running(d) /\ Running(d)')
         => /\ downloadedBytes[d] >= 0
            /\ downloadedBytes'[d] >= downloadedBytes[d]]_vars

\* a running download that was paused while a chunk was in flight and has
\* counted the chunk
C14_Witness ==
    \E d \in Dl : Running(d) /\ paused[d] /\ downloadedBytes[d] > 0

\* C15: while a Downloader has a request in flight, from the moment the
\* request is issued and so before its first chunk, the progress file of the
\* download exists and shows the status "in-progress".
C15_RecordInProgressBeforeFirstChunk ==
    \A d \in Dl :
        (Running(d) /\ net[d].state = "active")
        => /\ records[Key(d)].exists
           /\ RecStatus(Key(d)) = "in-progress"

\* C16: every percentage the consumer computes from a progress signal lies
\* in 0..100 (0 standing for "indeterminate"), and it is computed from a total
\* the server reported, never from a stand-in.
C16_PercentageFromReportedTotal ==
    \A d \in Dl :
        /\ percent[d] \in 0..100
        /\ \A i \in 1..delivered[d] :
             (events[d][i].kind = "Progress" /\ ~net[d].known /\ net[d].state # "none")
             => events[d][i].y = 0

\* C17: a resume of a paused download to which no byte was delivered since
\* the pause returns, so that the cycle can be repeated, issues its request
\* from the offset of the request before it, and leaves downloadedBytes and
\* the destination file as they were.
C17_PauseResumeIdempotent ==
    [][\A d \in Dl :
         (Running(d) /\ paused[d] /\ resumeDownload(d))
         => /\ mpc' = "idle"
            /\ Len(requests'[d]) = Len(requests[d]) + 1
            /\ requests'[d][Len(requests'[d])] = requests[d][Len(requests[d])]
            /\ downloadedBytes'[d] = downloadedBytes[d]
            /\ files'[Key(d)] = files[Key(d)]]_vars

\* C18: no thread is ever inside an operation of a Downloader waiting for
\* the mutex that the same thread already holds: neither the worker, in
\* startDownload (createProgressFile) or onDownloadProgress
\* (updateProgressFile), nor the GUI thread, in resumeDownload (startDownload).
C18_NoSelfDeadlock ==
    /\ \A d \in Dl : ~(wpc[d] = "deadlock" /\ mutex[d] = "worker")
    /\ \A d \in Dl : ~(mpc = "deadlock" /\ mtarget = d /\ mutex[d] = "main")

\* the arguments of the pauseResumeStatusChanged signals of d, in order
PauseResumeSeq(d) ==
    LET IsPR(e) == e.kind = "PauseResume"
        s == SelectSeq(events[d], IsPR)
    IN [i \in 1..Len(s) |-> s[i].x]

\* C19: while a running download stays paused, no step emits downloadProgress,
\* downloadFinished or downloadFailed for it or changes its downloadedBytes or
\* its progress file, whatever slot was already dispatched when the pause took
\* effect; and its pauseResumeStatusChanged signals carry true, false, true,
\* ... in turn, starting with true.
C19_QuietWhilePaused ==
    /\ [][\A d \in Dl :
            (Running(d) /\ paused[d] /\ paused'[d])
            => /\ events'[d] = events[d]
               /\ downloadedBytes'[d] = downloadedBytes[d]
               /\ records'[Key(d)] = records[Key(d)]]_vars
    /\ [](\A d \in Dl : \A i \in 1..Len(PauseResumeSeq(d)) :
            PauseResumeSeq(d)[i] = i % 2)

\* C20: whenever an operation of a Downloader uses its reply (pauseDownload
\* past its test, resumeDownload when paused, the two slots), the reply object
\* exists and has not been destroyed, and the slots find the file object set.
C20_NoUseOfReleasedObject ==
    [][\A d \in Dl :
         /\ (pauseDownload(d) /\ ~paused[d] /\ reply[d] # "null") => reply[d] = "valid"
         /\ (resumeDownload(d) /\ paused[d]) => reply[d] = "valid"
         /\ (onDownloadProgress(d) \/ onDownloadFinished(d))
            => (reply[d] = "valid" /\ file[d] = "set")]_vars

=============================================================================
